---------------------------- MODULE Spec2Model ----------------------------
(***************************************************************************)
(* A model of clickhouse_connect/datatypes/special.py: the UUID,           *)
(* FixedString, Nothing, Array, Tuple, Map, AggregateFunction and          *)
(* SimpleAggregateFunction codecs.                                         *)
(*                                                                         *)
(* Representation of Python values                                         *)
(*   bytes / bytearray : a sequence of naturals 0..255                     *)
(*   int read from k bytes : a base-256 numeral, most significant digit    *)
(*       first (a 64-bit word does not fit a TLC integer, and the code     *)
(*       only moves such words around; only array offsets are turned into  *)
(*       naturals, by NumeralToNat)                                        *)
(*   str : a sequence of code points                                       *)
(*   every value handed to a caller is tagged: [kind |-> ..., v |-> ...]   *)
(* A call's outcome is a record [status, value, loc]; status is "ok" or    *)
(* the name of the exception the call raises.                              *)
(***************************************************************************)
EXTENDS Integers, Sequences, FiniteSets, TLC

VARIABLES
    pc,          \* "idle": the caller is between calls; "done": a call has returned or raised
    call,        \* the last call: [op, typ, source, loc, rows, swap, host, arg, dest]
    result,      \* its outcome: [status, value, loc]; an encode's value is the out buffer after it
    buf,         \* the caller's byte buffer (read by decodes, appended to by encodes)
    written,     \* values encoded into buf, in order: <<[pos, value], ...>>
    cut,         \* number of bytes a truncation removed from the end of buf
    fsClass,     \* FixedString's class attributes: [transform, encoding, encode_error]
    lastMethod,  \* method of the last fixed_string_format call that named a strategy
    instances,   \* the codec instances construction has returned to the caller
    ctorLog      \* constructor events of the last registry lookup, in order

vars == <<pc, call, result, buf, written, cut, fsClass, lastMethod, instances, ctorLog>>

---------------------------------------------------------------------------
(* Bounds of the model *)

MaxUuids == 2       \* identifiers encoded into one buffer
MaxCut == 9         \* bytes a truncation may remove
MaxRows == 3        \* rows of a bulk column
MaxCnt == 2         \* elements of one array row
MaxSize == 2        \* declared width of a FixedString
MaxSrcLen == 3      \* bytes of a FixedString source buffer
MaxDepth == 2       \* nesting depth of the element type names handed to Array
MaxPairs == 2       \* pairs of a mapping

---------------------------------------------------------------------------
(* Python primitives *)

Min2(a, b) == IF a < b THEN a ELSE b

Max2(a, b) == IF a > b THEN a ELSE b

Reverse(s) == [i \in 1..Len(s) |-> s[Len(s) + 1 - i]]

\* s[a:b] for 0 <= a: clamped to the sequence, never an error
PySlice(s, a, b) == SubSeq(s, a + 1, Min2(b, Len(s)))

Zeros(n) == [i \in 1..n |-> 0]

\* int.from_bytes(bs, order): the numeral has one digit per byte read
IntFromBytes(bs, order) == IF order = "little" THEN Reverse(bs) ELSE bs

RECURSIVE StripZeros(_)
StripZeros(num) ==
    IF num # <<>> /\ Head(num) = 0 THEN StripZeros(Tail(num)) ELSE num

\* int.to_bytes(length, 'big'): left-padded with zero bytes. Every numeral the
\* code converts was read from at most length bytes, so OverflowError cannot arise.
IntToBytesBig(num, length) ==
    LET sig == StripZeros(num) IN Zeros(length - Len(sig)) \o sig

\* a << 64 | b for two unsigned 64-bit words
Shift64Or(a, b) == IntToBytesBig(a, 8) \o IntToBytesBig(b, 8)

RECURSIVE NumeralToNat(_)
NumeralToNat(num) ==
    IF num = <<>> THEN 0
    ELSE 256 * NumeralToNat(SubSeq(num, 1, Len(num) - 1)) + num[Len(num)]

(* tagged values *)
Bytes(b) == [kind |-> "bytes", v |-> b]
Str(cps) == [kind |-> "str", v |-> cps]
None == [kind |-> "None", v |-> <<>>]
List(xs) == [kind |-> "list", v |-> xs]
TupleV(xs) == [kind |-> "tuple", v |-> xs]
Dict(pairs) == [kind |-> "dict", v |-> pairs]
\* uuid.UUID: identified by its 128-bit int (16 digits); .bytes are those digits
PyUUID(int128) == [kind |-> "UUID", v |-> int128]

Ok(value, loc) == [status |-> "ok", value |-> value, loc |-> loc]
Raise(exc) == [status |-> exc, value |-> None, loc |-> 0]

NoCall == [op |-> "none", typ |-> None, source |-> <<>>, loc |-> 0, rows |-> 0,
           swap |-> FALSE, host |-> "little", arg |-> None, dest |-> <<>>]
NoResult == [status |-> "none", value |-> None, loc |-> 0]

---------------------------------------------------------------------------
(* class UUID *)

UuidLen == 16

\* UUID._from_row_binary(source, loc)
UUID_from_row_binary(source, loc) ==
    LET int_high == IntFromBytes(PySlice(source, loc, loc + 8), "little")
        int_low == IntFromBytes(PySlice(source, loc + 8, loc + 16), "little")
        byte_value == IntToBytesBig(int_high, 8) \o IntToBytesBig(int_low, 8)
    IN  Ok(PyUUID(IntFromBytes(byte_value, "big")), loc + 16)

\* a plausible slip: the whole 16 bytes reversed at once instead of each half
UUID_to_row_binary_whole(value, dest) == dest \o Reverse(value.v)

\* UUID._to_row_binary(value, dest): the buffer after dest += ...
UUID_to_row_binary(value, dest) ==
    LET source == value.v
        bytes_high == Reverse(SubSeq(source, 1, 8))
        bytes_low == Reverse(SubSeq(source, 9, Len(source)))
    IN  dest \o (bytes_high \o bytes_low)

\* struct.unpack_from(f'<{n}Q', source, loc): n little-endian words; ok is FALSE
\* (struct.error) when n is negative or fewer than 8*n bytes lie at loc
UnpackFromLittleQ(n, source, loc) ==
    IF n < 0 \/ Len(source) - loc < 8 * n THEN [ok |-> FALSE, v |-> <<>>]
    ELSE [ok |-> TRUE,
          v |-> [k \in 1..n |->
                   IntFromBytes(SubSeq(source, loc + 8 * (k - 1) + 1, loc + 8 * k), "little")]]

\* a plausible slip: the words byte-swapped when must_swap is set
UUID_from_native_swapping(source, loc, num_rows, must_swap) ==
    LET u == UnpackFromLittleQ(num_rows * 2, source, loc)
        v == u.v
    IN
    IF ~u.ok THEN Raise("struct.error")
    ELSE Ok(List([ix \in 1..num_rows |->
                    PyUUID(Shift64Or(IF must_swap THEN Reverse(v[2 * ix - 1]) ELSE v[2 * ix - 1],
                                     IF must_swap THEN Reverse(v[2 * ix]) ELSE v[2 * ix]))]),
            loc + num_rows * 16)

\* UUID.from_native(source, loc, num_rows, must_swap)
UUID_from_native(source, loc, num_rows, must_swap) ==
    LET u == UnpackFromLittleQ(num_rows * 2, source, loc)
        v == u.v
    IN
    IF ~u.ok THEN Raise("struct.error")
    ELSE Ok(List([ix \in 1..num_rows |-> PyUUID(Shift64Or(v[2 * ix - 1], v[2 * ix]))]),
            loc + num_rows * 16)

---------------------------------------------------------------------------
(* text codecs of the Python runtime: bytes.decode, str.encode, hexlify *)

Cont(b) == b >= 128 /\ b <= 191

\* bytes.decode('utf8'): [ok, cps]; ok is FALSE for UnicodeDecodeError
RECURSIVE Utf8Decode(_)
Utf8Decode(bs) ==
    IF bs = <<>> THEN [ok |-> TRUE, cps |-> <<>>]
    ELSE
    LET b == bs[1]
        n == IF b < 128 THEN 1
             ELSE IF b >= 194 /\ b <= 223 THEN 2
             ELSE IF b >= 224 /\ b <= 239 THEN 3
             ELSE IF b >= 240 /\ b <= 244 THEN 4
             ELSE 0
        wellFormed ==
            /\ n > 0
            /\ Len(bs) >= n
            /\ \A i \in 2..n : Cont(bs[i])
            /\ (b = 224 => bs[2] >= 160)
            /\ (b = 237 => bs[2] <= 159)
            /\ (b = 240 => bs[2] >= 144)
            /\ (b = 244 => bs[2] <= 143)
        cp == CASE n = 1 -> b
                [] n = 2 -> (b - 192) * 64 + (bs[2] - 128)
                [] n = 3 -> (b - 224) * 4096 + (bs[2] - 128) * 64 + (bs[3] - 128)
                [] n = 4 -> (b - 240) * 262144 + (bs[2] - 128) * 4096
                              + (bs[3] - 128) * 64 + (bs[4] - 128)
    IN
    IF ~wellFormed THEN [ok |-> FALSE, cps |-> <<>>]
    ELSE LET rest == Utf8Decode(SubSeq(bs, n + 1, Len(bs))) IN
         IF rest.ok THEN [ok |-> TRUE, cps |-> <<cp>> \o rest.cps] ELSE rest

\* bytes.decode(encoding) for the encodings of the model
BytesDecode(bs, encoding) ==
    CASE encoding = "utf8" -> Utf8Decode(bs)
      [] encoding = "latin1" -> [ok |-> TRUE, cps |-> bs]
      [] encoding = "ascii" ->
            IF \A i \in 1..Len(bs) : bs[i] < 128
            THEN [ok |-> TRUE, cps |-> bs] ELSE [ok |-> FALSE, cps |-> <<>>]

RECURSIVE Utf8Encode(_)
Utf8Encode(cps) ==
    IF cps = <<>> THEN [ok |-> TRUE, bs |-> <<>>]
    ELSE
    LET c == cps[1]
        surrogate == c >= 55296 /\ c <= 57343
        one == IF c < 128 THEN <<c>>
               ELSE IF c < 2048 THEN <<192 + (c \div 64), 128 + (c % 64)>>
               ELSE IF c < 65536
                    THEN <<224 + (c \div 4096), 128 + ((c \div 64) % 64), 128 + (c % 64)>>
               ELSE <<240 + (c \div 262144), 128 + ((c \div 4096) % 64),
                      128 + ((c \div 64) % 64), 128 + (c % 64)>>
        rest == Utf8Encode(Tail(cps))
    IN  IF surrogate \/ ~rest.ok THEN [ok |-> FALSE, bs |-> <<>>]
        ELSE [ok |-> TRUE, bs |-> one \o rest.bs]

\* str.encode(encoding); ok is FALSE for UnicodeEncodeError
StrEncode(cps, encoding) ==
    CASE encoding = "utf8" -> Utf8Encode(cps)
      [] encoding = "latin1" ->
            IF \A i \in 1..Len(cps) : cps[i] < 256
            THEN [ok |-> TRUE, bs |-> cps] ELSE [ok |-> FALSE, bs |-> <<>>]
      [] encoding = "ascii" ->
            IF \A i \in 1..Len(cps) : cps[i] < 128
            THEN [ok |-> TRUE, bs |-> cps] ELSE [ok |-> FALSE, bs |-> <<>>]

HexDigit(n) == IF n < 10 THEN 48 + n ELSE 87 + n

\* binascii.hexlify(value): two lower-case hex digits per byte
Hexlify(bs) ==
    [i \in 1..(2 * Len(bs)) |->
        IF i % 2 = 1 THEN HexDigit((bs[(i + 1) \div 2]) \div 16)
        ELSE HexDigit((bs[i \div 2]) % 16)]

---------------------------------------------------------------------------
(* FixedString and its module-level strategies *)

\* a class attribute holding a wrapped function
Attr(wrap, fn) == [wrap |-> wrap, fn |-> fn]

\* number of positional parameters each function declares
FnParams(fn) ==
    CASE fn = "_fixed_string_binary" -> 1      \* (value)
      [] fn = "_fixed_string_decode" -> 2      \* (cls, value)
      [] fn = "_hex_string" -> 2               \* (cls, value)
      [] fn = "lambda" -> 1                    \* lambda cls: '<binary data>'

\* attr(value) looked up on the class or an instance: a classmethod passes the
\* class first, a staticmethod passes nothing; TRUE when the call binds
Binds(attr, nargs) ==
    (IF attr.wrap = "classmethod" THEN nargs + 1 ELSE nargs) = FnParams(attr.fn)

\* _fixed_string_binary(value)
fixed_string_binary(value) == Bytes(value)

\* _hex_string(cls, value)
hex_string(value) == Str(Hexlify(value))

\* the text '<binary data>'
BinaryDataText == <<60, 98, 105, 110, 97, 114, 121, 32, 100, 97, 116, 97, 62>>

\* cls._encode_error(value)
CallEncodeError(cls, value) ==
    LET attr == cls.encode_error IN
    IF ~Binds(attr, 1) THEN [status |-> "TypeError", value |-> None]
    ELSE CASE attr.fn = "_fixed_string_binary" ->
                [status |-> "ok", value |-> fixed_string_binary(value)]
           [] attr.fn = "_hex_string" -> [status |-> "ok", value |-> hex_string(value)]
           [] attr.fn = "lambda" -> [status |-> "ok", value |-> Str(BinaryDataText)]

\* _fixed_string_decode(cls, value)
fixed_string_decode(cls, value) ==
    LET d == BytesDecode(value, cls.encoding) IN
    IF d.ok THEN [status |-> "ok", value |-> Str(d.cps)]
    ELSE CallEncodeError(cls, value)

\* self._transform(value)
CallTransform(cls, value) ==
    LET attr == cls.transform IN
    IF ~Binds(attr, 1) THEN [status |-> "TypeError", value |-> None]
    ELSE CASE attr.fn = "_fixed_string_binary" ->
                [status |-> "ok", value |-> fixed_string_binary(value)]
           [] attr.fn = "_hex_string" -> [status |-> "ok", value |-> hex_string(value)]
           [] attr.fn = "_fixed_string_decode" -> fixed_string_decode(cls, value)

\* the class body of FixedString
FixedStringClass ==
    [transform |-> Attr("staticmethod", "_fixed_string_binary"),
     encoding |-> "utf8",
     encode_error |-> Attr("staticmethod", "_fixed_string_binary")]

\* FixedString._from_row_binary(self, source, loc)
FixedString_from_row_binary(cls, size, source, loc) ==
    LET t == CallTransform(cls, PySlice(source, loc, loc + size)) IN
    IF t.status = "ok" THEN Ok(t.value, loc + size) ELSE Raise(t.status)

\* FixedString._to_row_binary(self, value, dest): [status, dest]
FixedString_to_row_binary(cls, value, dest) ==
    IF value.kind = "str"
    THEN LET e == StrEncode(value.v, cls.encoding) IN
         IF e.ok THEN [status |-> "ok", dest |-> dest \o e.bs]
         ELSE [status |-> "UnicodeEncodeError", dest |-> dest]
    ELSE [status |-> "ok", dest |-> dest \o value.v]

\* FixedString.from_native(self, source, loc, num_rows, must_swap)
FixedString_from_native(size, source, loc, num_rows, must_swap) ==
    LET sz == size
        n == Max2(num_rows, 0)
    IN  Ok(TupleV([ix \in 1..n |->
                     Bytes(PySlice(source, loc + (ix - 1) * sz, loc + (ix - 1) * sz + sz))]),
           loc + sz * num_rows)

\* fixed_string_format(method, encoding, encoding_error): the class attributes after
fixed_string_format(cls, method, encoding, encoding_error) ==
    CASE method = "binary" ->
            [cls EXCEPT !.transform = Attr("staticmethod", "_fixed_string_binary")]
      [] method = "decode" ->
            [transform |-> Attr("classmethod", "_fixed_string_decode"),
             encoding |-> encoding,
             encode_error |-> IF encoding_error = "hex"
                              THEN Attr("classmethod", "_hex_string")
                              ELSE Attr("classmethod", "lambda")]
      [] method = "hex" ->
            [cls EXCEPT !.transform = Attr("staticmethod", "_hex_string")]
      [] OTHER -> cls

---------------------------------------------------------------------------
(* type descriptors and the registry *)

\* TypeDef: the base name and the ordered parameter values. A codec instance is
\* identified with the descriptor it was constructed from.
TypeDef(name, values) == [name |-> name, values |-> values]

UUIDType == TypeDef("UUID", <<>>)
NothingType == TypeDef("Nothing", <<>>)
FixedStringType(n) == TypeDef("FixedString", <<n>>)
ArrayType(t) == TypeDef("Array", <<t>>)
TupleType(ts) == TypeDef("Tuple", ts)
MapType(k, v) == TypeDef("Map", <<k, v>>)
\* the aggregate function's name is the first parameter, its value type the second
AnyFunction == TypeDef("any", <<>>)
AggregateFunctionType(t) == TypeDef("AggregateFunction", <<AnyFunction, t>>)
SimpleAggregateFunctionType(t) == TypeDef("SimpleAggregateFunction", <<AnyFunction, t>>)

\* FixedString.__init__: self.size = type_def.values[0]
FixedString_size(t) == t.values[1]

ClassNames ==
    {"UUID", "FixedString", "Nothing", "Array", "Tuple", "Map", "AggregateFunction",
     "SimpleAggregateFunction"}

Resolved(t) == [ev |-> "resolved", typ |-> t]
Raised(t) == [ev |-> "raised", typ |-> t]

RECURSIVE get_from_name(_)

\* a plausible slip: the nesting check left out
Array_init_unchecked(type_def) ==
    LET e == get_from_name(type_def.values[1]) IN
    IF e.status # "ok" THEN e
    ELSE [status |-> "ok", log |-> Append(e.log, Resolved(type_def))]

\* Array.__init__(self, type_def): [status, log]; log lists, in order, the codecs
\* the registry handed back and the constructors that raised
Array_init(type_def) ==
    LET e == get_from_name(type_def.values[1]) IN
    IF e.status # "ok" THEN e
    ELSE IF type_def.values[1].name = "Array"
    THEN [status |-> "DriverError", log |-> Append(e.log, Raised(type_def))]
    ELSE [status |-> "ok", log |-> Append(e.log, Resolved(type_def))]

\* [get_from_name(name) for name in names]: stops at the first lookup that raises
RECURSIVE ResolveAll(_, _)
ResolveAll(names, log) ==
    IF names = <<>> THEN [status |-> "ok", log |-> log]
    ELSE LET e == get_from_name(Head(names)) IN
         IF e.status # "ok" THEN [status |-> e.status, log |-> log \o e.log]
         ELSE ResolveAll(Tail(names), log \o e.log)

\* Tuple.__init__: every element name is looked up twice, once per function table
Tuple_init(type_def) ==
    LET r == ResolveAll(type_def.values \o type_def.values, <<>>) IN
    IF r.status # "ok" THEN r
    ELSE [status |-> "ok", log |-> Append(r.log, Resolved(type_def))]

\* Map.__init__: the key codec, then the value codec
Map_init(type_def) ==
    LET r == ResolveAll(<<type_def.values[1], type_def.values[2]>>, <<>>) IN
    IF r.status # "ok" THEN r
    ELSE [status |-> "ok", log |-> Append(r.log, Resolved(type_def))]

\* SimpleAggregateFunction.__init__: the codec of the second type parameter
SimpleAggregateFunction_init(type_def) ==
    LET r == get_from_name(type_def.values[2]) IN
    IF r.status # "ok" THEN r
    ELSE [status |-> "ok", log |-> Append(r.log, Resolved(type_def))]

\* the registry: lookup(type_name) -> codec instance, constructing the class the
\* name selects; fails when the name is unknown
get_from_name(t) ==
    CASE t.name \notin ClassNames -> [status |-> "UnknownType", log |-> <<Raised(t)>>]
      [] t.name = "Array" -> Array_init(t)
      [] t.name = "Tuple" -> Tuple_init(t)
      [] t.name = "Map" -> Map_init(t)
      [] t.name = "SimpleAggregateFunction" -> SimpleAggregateFunction_init(t)
      [] OTHER -> [status |-> "ok", log |-> <<Resolved(t)>>]

---------------------------------------------------------------------------
(* Array: the columnar path *)

\* array.array('Q').frombytes(bs), then byteswap() when must_swap: the words as
\* numerals; ok is FALSE (ValueError) unless bs holds whole 8-byte items
OffsetsFromBytes(bs, must_swap, host) ==
    IF Len(bs) % 8 # 0 THEN [ok |-> FALSE, v |-> <<>>]
    ELSE [ok |-> TRUE,
          v |-> [k \in 1..(Len(bs) \div 8) |->
                   LET w == SubSeq(bs, 8 * (k - 1) + 1, 8 * k)
                       order == IF must_swap
                                THEN (IF host = "little" THEN "big" ELSE "little")
                                ELSE host
                   IN  IntFromBytes(w, order)]]

\* element_type.from_native for the element codecs that define one
RECURSIVE FromNative(_, _, _, _, _)

\* the loop over offsets: column collects one val_list per offset
RECURSIVE ArrayRows(_, _, _, _, _, _, _)
ArrayRows(elem, source, loc, must_swap, offsets, last, column) ==
    IF offsets = <<>> THEN Ok(List(column), loc)
    ELSE LET offset == NumeralToNat(Head(offsets))
             cnt == offset - last
             r == FromNative(elem, source, loc, cnt, must_swap)
         IN  IF r.status # "ok" THEN r
             ELSE ArrayRows(elem, source, r.loc, must_swap, Tail(offsets), offset,
                            Append(column, r.value))

\* a plausible slip: last is never advanced, so every row takes its offset as count
RECURSIVE ArrayRowsNoLast(_, _, _, _, _, _, _)
ArrayRowsNoLast(elem, source, loc, must_swap, offsets, last, column) ==
    IF offsets = <<>> THEN Ok(List(column), loc)
    ELSE LET offset == NumeralToNat(Head(offsets))
             cnt == offset - last
             r == FromNative(elem, source, loc, cnt, must_swap)
         IN  IF r.status # "ok" THEN r
             ELSE ArrayRowsNoLast(elem, source, r.loc, must_swap, Tail(offsets), last,
                                  Append(column, r.value))

Array_from_native_no_last(elem, source, loc, num_rows, must_swap, host) ==
    LET sz == num_rows * 8
        offsets == OffsetsFromBytes(PySlice(source, loc, loc + sz), must_swap, host)
    IN  IF ~offsets.ok THEN Raise("ValueError")
        ELSE ArrayRowsNoLast(elem, source, loc + sz, must_swap, offsets.v, 0, <<>>)

\* Array.from_native(self, source, loc, num_rows, must_swap) on a host of the
\* given byte order; elem is self.element_type. conv_py is not applied: neither
\* UUID nor FixedString defines a to_python transform.
Array_from_native(elem, source, loc, num_rows, must_swap, host) ==
    LET sz == num_rows * 8
        offsets == OffsetsFromBytes(PySlice(source, loc, loc + sz), must_swap, host)
    IN  IF ~offsets.ok THEN Raise("ValueError")
        ELSE ArrayRows(elem, source, loc + sz, must_swap, offsets.v, 0, <<>>)

FromNative(t, source, loc, num_rows, must_swap) ==
    CASE t.name = "UUID" -> UUID_from_native(source, loc, num_rows, must_swap)
      [] t.name = "FixedString" ->
            FixedString_from_native(FixedString_size(t), source, loc, num_rows, must_swap)

---------------------------------------------------------------------------
(* the length-prefix primitive (driver/rowbinary) *)

\* read_leb128(source, loc): 7 bits per byte, low group first, high bit = more
RECURSIVE ReadLeb(_, _, _, _)
ReadLeb(source, loc, mul, acc) ==
    IF loc >= Len(source) THEN Raise("IndexError")
    ELSE LET b == source[loc + 1]
             v == acc + (b % 128) * mul
         IN  IF b < 128 THEN Ok(v, loc + 1) ELSE ReadLeb(source, loc + 1, mul * 128, v)

read_leb128(source, loc) == ReadLeb(source, loc, 1, 0)

RECURSIVE to_leb128(_)
to_leb128(n) ==
    IF n < 128 THEN <<n>> ELSE <<128 + (n % 128)>> \o to_leb128(n \div 128)

---------------------------------------------------------------------------
(* the row-oriented path; cls is the FixedString class state *)

\* codec.from_row_binary(source, loc)
RECURSIVE FromRowBinary(_, _, _, _)

\* codec.to_row_binary(*args): [status, dest, ret]; dest is the out buffer after
\* the call when one was passed, ret the value returned
RECURSIVE ToRowBinary(_, _, _)

EncOk(dest, ret) == [status |-> "ok", dest |-> dest, ret |-> ret]
EncRaise(exc, dest) == [status |-> exc, dest |-> dest, ret |-> None]

\* Nothing._from_row_binary: a staticmethod declared (self, source, loc)
Nothing_from_row_binary(args) ==
    IF Len(args) # 3 THEN Raise("TypeError") ELSE Ok(None, args[3])

\* Nothing._to_row_binary(self, value, dest): pass
Nothing_to_row_binary(value, dest) == dest

\* for x in range(n): value, loc = conv(source, loc); values.append(value)
RECURSIVE DecodeN(_, _, _, _, _, _)
DecodeN(cls, elem, source, loc, n, values) ==
    IF n <= 0 THEN Ok(values, loc)
    ELSE LET r == FromRowBinary(cls, elem, source, loc) IN
         IF r.status # "ok" THEN r
         ELSE DecodeN(cls, elem, source, r.loc, n - 1, Append(values, r.value))

\* Array._from_row_binary(self, source, loc)
Array_from_row_binary(cls, t, source, loc) ==
    LET size == read_leb128(source, loc) IN
    IF size.status # "ok" THEN size
    ELSE LET r == DecodeN(cls, t.values[1], source, size.loc, size.value, <<>>) IN
         IF r.status # "ok" THEN r ELSE Ok(List(r.value), r.loc)

\* Tuple._from_row_binary(self, source, loc)
RECURSIVE TupleDecode(_, _, _, _, _)
TupleDecode(cls, convs, source, loc, values) ==
    IF convs = <<>> THEN Ok(TupleV(values), loc)
    ELSE LET r == FromRowBinary(cls, Head(convs), source, loc) IN
         IF r.status # "ok" THEN r
         ELSE TupleDecode(cls, Tail(convs), source, r.loc, Append(values, r.value))

Tuple_from_row_binary(cls, t, source, loc) == TupleDecode(cls, t.values, source, loc, <<>>)

\* values[key] = value on a dict held as its items in insertion order
DictSet(pairs, key, value) ==
    IF \E i \in 1..Len(pairs) : pairs[i][1] = key
    THEN [i \in 1..Len(pairs) |-> IF pairs[i][1] = key THEN <<key, value>> ELSE pairs[i]]
    ELSE Append(pairs, <<key, value>>)

RECURSIVE MapDecode(_, _, _, _, _, _)
MapDecode(cls, t, source, loc, n, pairs) ==
    IF n <= 0 THEN Ok(Dict(pairs), loc)
    ELSE LET k == FromRowBinary(cls, t.values[1], source, loc) IN
         IF k.status # "ok" THEN k
         ELSE LET v == FromRowBinary(cls, t.values[2], source, k.loc) IN
              IF v.status # "ok" THEN v
              ELSE MapDecode(cls, t, source, v.loc, n - 1, DictSet(pairs, k.value, v.value))

\* Map._from_row_binary(self, source, loc)
Map_from_row_binary(cls, t, source, loc) ==
    LET size == read_leb128(source, loc) IN
    IF size.status # "ok" THEN size
    ELSE MapDecode(cls, t, source, size.loc, size.value, <<>>)

\* SimpleAggregateFunction._from_row_binary(self, source, loc)
SimpleAggregateFunction_from_row_binary(cls, t, source, loc) ==
    FromRowBinary(cls, t.values[2], source, loc)

FromRowBinary(cls, t, source, loc) ==
    CASE t.name = "UUID" -> UUID_from_row_binary(source, loc)
      [] t.name = "FixedString" -> FixedString_from_row_binary(cls, FixedString_size(t), source, loc)
      [] t.name = "Nothing" -> Nothing_from_row_binary(<<source, loc>>)
      [] t.name = "Array" -> Array_from_row_binary(cls, t, source, loc)
      [] t.name = "Tuple" -> Tuple_from_row_binary(cls, t, source, loc)
      [] t.name = "Map" -> Map_from_row_binary(cls, t, source, loc)
      [] t.name = "AggregateFunction" -> Raise("NotSupportedError")
      [] t.name = "SimpleAggregateFunction" ->
            SimpleAggregateFunction_from_row_binary(cls, t, source, loc)

\* for value in values: conv(value, dest)
RECURSIVE EncodeEach(_, _, _, _)
EncodeEach(cls, convs, values, dest) ==
    IF values = <<>> \/ convs = <<>> THEN EncOk(dest, None)
    ELSE LET r == ToRowBinary(cls, Head(convs), <<Head(values), dest>>) IN
         IF r.status # "ok" THEN r
         ELSE EncodeEach(cls, Tail(convs), Tail(values), r.dest)

\* Array._to_row_binary(self, values, dest)
Array_to_row_binary(cls, t, values, dest) ==
    EncodeEach(cls, [i \in 1..Len(values.v) |-> t.values[1]], values.v,
               dest \o to_leb128(Len(values.v)))

\* Tuple._to_row_binary(self, values, dest)
Tuple_to_row_binary(cls, t, values, dest) == EncodeEach(cls, t.values, values.v, dest)

\* ret.extend(x) for the value x a call returned: None is not iterable
Extend(ret, r) ==
    IF r.status # "ok" THEN [status |-> r.status, ret |-> ret]
    ELSE IF r.ret.kind # "bytes" THEN [status |-> "TypeError", ret |-> ret]
    ELSE [status |-> "ok", ret |-> ret \o r.ret.v]

\* the loop of Map._to_row_binary over values.items()
RECURSIVE MapEncode(_, _, _, _)
MapEncode(cls, t, items, ret) ==
    IF items = <<>> THEN EncOk(<<>>, Bytes(ret))
    ELSE LET key == Head(items)[1]
             k == Extend(ret, ToRowBinary(cls, t.values[1], <<key>>))
         IN  IF k.status # "ok" THEN EncRaise(k.status, <<>>)
             ELSE LET v == Extend(k.ret, ToRowBinary(cls, t.values[2], <<key>>)) IN
                  IF v.status # "ok" THEN EncRaise(v.status, <<>>)
                  ELSE MapEncode(cls, t, Tail(items), v.ret)

\* Map._to_row_binary(self, values)
Map_to_row_binary(cls, t, values) == MapEncode(cls, t, values.v, <<>>)

\* SimpleAggregateFunction._to_row_binary(self, value)
SimpleAggregateFunction_to_row_binary(cls, t, value) ==
    ToRowBinary(cls, t.values[2], <<value>>)

\* number of arguments each class's _to_row_binary takes besides self
ToRowBinaryParams(t) ==
    IF t.name \in {"Map", "AggregateFunction", "SimpleAggregateFunction"} THEN 1 ELSE 2

ToRowBinary(cls, t, args) ==
    LET dest == IF Len(args) >= 2 THEN args[2] ELSE <<>> IN
    IF Len(args) # ToRowBinaryParams(t) THEN EncRaise("TypeError", dest)
    ELSE CASE t.name = "UUID" -> EncOk(UUID_to_row_binary(args[1], dest), None)
           [] t.name = "FixedString" ->
                LET r == FixedString_to_row_binary(cls, args[1], dest) IN
                IF r.status = "ok" THEN EncOk(r.dest, None) ELSE EncRaise(r.status, r.dest)
           [] t.name = "Nothing" -> EncOk(Nothing_to_row_binary(args[1], dest), None)
           [] t.name = "Array" -> Array_to_row_binary(cls, t, args[1], dest)
           [] t.name = "Tuple" -> Tuple_to_row_binary(cls, t, args[1], dest)
           [] t.name = "Map" -> Map_to_row_binary(cls, t, args[1])
           [] t.name = "AggregateFunction" -> EncRaise("NotSupportedError", dest)
           [] t.name = "SimpleAggregateFunction" ->
                SimpleAggregateFunction_to_row_binary(cls, t, args[1])

---------------------------------------------------------------------------
(* Specification SpecUUID: a caller encodes identifiers into a buffer, may  *)
(* lose the end of the buffer, and decodes from it row by row or in bulk.  *)

Ramp(start, step) == [i \in 1..UuidLen |-> (start + (i - 1) * step) % 256]

\* 00112233-4455-6677-8899-aabbccddeeff, the nil and the all-ones identifier,
\* and one without repeated bytes
UuidValues ==
    {PyUUID(Ramp(0, 17)), PyUUID(Ramp(0, 0)), PyUUID(Ramp(255, 0)), PyUUID(Ramp(1, 3))}

\* bytes already in the caller's buffer before the first encode
Prefixes == {<<>>, <<7>>}

InitCommon ==
    /\ pc = "idle"
    /\ call = NoCall
    /\ result = NoResult
    /\ written = <<>>
    /\ cut = 0
    /\ fsClass = FixedStringClass
    /\ lastMethod = "none"
    /\ instances = {}
    /\ ctorLog = <<>>

InitUUID == InitCommon /\ buf \in Prefixes

\* the caller takes the outcome and is ready for the next call
Return ==
    /\ pc = "done"
    /\ pc' = "idle"
    /\ call' = NoCall
    /\ result' = NoResult
    /\ UNCHANGED <<buf, written, cut, fsClass, lastMethod, instances, ctorLog>>

UUIDToRowBinary(v) ==
    /\ pc = "idle"
    /\ cut = 0
    /\ Len(written) < MaxUuids
    /\ buf' = UUID_to_row_binary(v, buf)
    /\ written' = Append(written, [pos |-> Len(buf), value |-> v])
    /\ UNCHANGED <<pc, call, result, cut, fsClass, lastMethod, instances, ctorLog>>

\* the buffer reaches the decoder with its last k bytes missing
Truncate(k) ==
    /\ pc = "idle"
    /\ cut = 0
    /\ k <= Len(buf)
    /\ buf' = SubSeq(buf, 1, Len(buf) - k)
    /\ cut' = k
    /\ UNCHANGED <<pc, call, result, written, fsClass, lastMethod, instances, ctorLog>>

\* positions a caller decodes at: the start, the end, and where a value begins
DecodeLocs == {0, Len(buf)} \cup {written[i].pos : i \in 1..Len(written)}

UUIDFromRowBinary(loc) ==
    /\ pc = "idle"
    /\ call' = [NoCall EXCEPT !.op = "UUID._from_row_binary", !.loc = loc]
    /\ result' = UUID_from_row_binary(buf, loc)
    /\ pc' = "done"
    /\ UNCHANGED <<buf, written, cut, fsClass, lastMethod, instances, ctorLog>>

UUIDFromNative(loc, n, swap) ==
    /\ pc = "idle"
    /\ call' = [NoCall EXCEPT !.op = "UUID.from_native", !.loc = loc, !.rows = n,
                              !.swap = swap]
    /\ result' = UUID_from_native(buf, loc, n, swap)
    /\ pc' = "done"
    /\ UNCHANGED <<buf, written, cut, fsClass, lastMethod, instances, ctorLog>>

NextUUID ==
    \/ \E v \in UuidValues : UUIDToRowBinary(v)
    \/ \E k \in 1..MaxCut : Truncate(k)
    \/ \E loc \in DecodeLocs : UUIDFromRowBinary(loc)
    \/ \E loc \in DecodeLocs, n \in 0..MaxUuids, swap \in BOOLEAN : UUIDFromNative(loc, n, swap)
    \/ Return

SpecUUID == InitUUID /\ [][NextUUID]_vars

\* the i-th encoded identifier still lies whole in the buffer
Intact(i) == written[i].pos + UuidLen <= Len(buf)

\* C1: every encode appends exactly 16 bytes, the first 8 standard-order bytes
\* reversed then the last 8 reversed, and a row-oriented decode at the position
\* where a value v was encoded returns v and that position plus 16.
C1_UuidRoundTrip ==
    /\ \A i \in 1..Len(written) :
          /\ written[i].pos = written[1].pos + UuidLen * (i - 1)
          /\ Intact(i) =>
                \A j \in 1..8 :
                    /\ buf[written[i].pos + j] = written[i].value.v[9 - j]
                    /\ buf[written[i].pos + 8 + j] = written[i].value.v[17 - j]
    /\ written # <<>> => Len(buf) + cut = written[1].pos + UuidLen * Len(written)
    /\ (pc = "done" /\ call.op = "UUID._from_row_binary") =>
          \A i \in 1..Len(written) :
              (written[i].pos = call.loc /\ Intact(i)) =>
                  result = Ok(written[i].value, call.loc + 16)

C1_Witness ==
    /\ pc = "done"
    /\ call.op = "UUID._from_row_binary"
    /\ call.loc = 17
    /\ Len(written) = 2
    /\ written[2].pos = 17
    /\ written[2].value = PyUUID(Ramp(0, 17))
    /\ Intact(2)
    /\ result.status = "ok"

\* n successive row-oriented decodes starting at loc
RECURSIVE RowByRow(_, _, _, _)
RowByRow(source, loc, n, values) ==
    IF n = 0 THEN Ok(List(values), loc)
    ELSE LET r == UUID_from_row_binary(source, loc) IN
         RowByRow(source, r.loc, n - 1, Append(values, r.value))

\* C10: a bulk decode of N rows at p that has N*16 bytes to read returns, for
\* either value of must_swap, the values N successive row-oriented decodes from
\* p return, in the same order, and the position p + 16*N.
C10_BulkMatchesRows ==
    (pc = "done" /\ call.op = "UUID.from_native"
        /\ Len(buf) - call.loc >= UuidLen * call.rows) =>
        /\ result.status = "ok"
        /\ result = RowByRow(buf, call.loc, call.rows, <<>>)
        /\ result.loc = call.loc + 16 * call.rows

C10_Witness ==
    /\ pc = "done"
    /\ call.op = "UUID.from_native"
    /\ call.rows = 2
    /\ call.swap
    /\ call.loc = 1
    /\ cut = 0
    /\ Len(buf) = 33
    /\ result.status = "ok"
    /\ result.value.v[1] # result.value.v[2]

\* C6: a decode at a position where fewer bytes remain than the value requires
\* fails with an error; it returns neither a value nor a position past the end.
C6_UnderrunRaises ==
    /\ (pc = "done" /\ call.op = "UUID._from_row_binary" /\ Len(buf) - call.loc < UuidLen) =>
          result.status # "ok"
    /\ (pc = "done" /\ call.op = "UUID.from_native"
          /\ Len(buf) - call.loc < UuidLen * call.rows) => result.status # "ok"

---------------------------------------------------------------------------
(* Specification SpecFixedString: FixedString codecs are constructed, the   *)
(* process-wide strategy is set any number of times, and values are        *)
(* decoded and encoded one row at a time.                                  *)

\* 'A', and the two bytes of U+00E9: valid UTF-8 only as the pair 195, 169
FsAlphabet == {65, 195, 169}

RECURSIVE SeqsUpTo(_, _)
SeqsUpTo(alphabet, n) ==
    IF n = 0 THEN {<<>>}
    ELSE LET shorter == SeqsUpTo(alphabet, n - 1) IN
         shorter \cup {Append(q, a) : q \in shorter, a \in alphabet}

FsSources == SeqsUpTo(FsAlphabet, MaxSrcLen)

Methods == {"binary", "decode", "hex", "text"}
Encodings == {"utf8", "latin1"}
ErrorPolicies == {"hex", "replace"}

\* values a caller hands to encode: raw bytes and text
FsValues == {Bytes(<<65>>), Bytes(<<195, 169>>), Str(<<65>>), Str(<<233>>), Str(<<8364>>)}

InitFixedString == InitCommon /\ buf = <<>>

\* FixedString.__init__(self, type_def)
FixedStringInit(n) ==
    /\ pc = "idle"
    /\ FixedStringType(n) \notin instances
    /\ instances' = instances \cup {FixedStringType(n)}
    /\ UNCHANGED <<pc, call, result, buf, written, cut, fsClass, lastMethod, ctorLog>>

FixedStringFormat(method, encoding, encoding_error) ==
    /\ pc = "idle"
    /\ fsClass' = fixed_string_format(fsClass, method, encoding, encoding_error)
    /\ lastMethod' = IF method \in {"binary", "decode", "hex"} THEN method ELSE lastMethod
    /\ UNCHANGED <<pc, call, result, buf, written, cut, instances, ctorLog>>

FixedStringFromRowBinary(t, source, loc) ==
    /\ pc = "idle"
    /\ t \in instances
    /\ call' = [NoCall EXCEPT !.op = "FixedString._from_row_binary", !.typ = t,
                              !.source = source, !.loc = loc]
    /\ result' = FixedString_from_row_binary(fsClass, FixedString_size(t), source, loc)
    /\ pc' = "done"
    /\ UNCHANGED <<buf, written, cut, fsClass, lastMethod, instances, ctorLog>>

FixedStringToRowBinary(t, value, dest) ==
    /\ pc = "idle"
    /\ t \in instances
    /\ call' = [NoCall EXCEPT !.op = "FixedString._to_row_binary", !.typ = t,
                              !.arg = value, !.dest = dest]
    /\ LET r == FixedString_to_row_binary(fsClass, value, dest) IN
       result' = [status |-> r.status, value |-> Bytes(r.dest), loc |-> 0]
    /\ pc' = "done"
    /\ UNCHANGED <<buf, written, cut, fsClass, lastMethod, instances, ctorLog>>

NextFixedString ==
    \/ \E n \in 1..MaxSize : FixedStringInit(n)
    \/ \E m \in Methods, e \in Encodings, p \in ErrorPolicies : FixedStringFormat(m, e, p)
    \/ \E t \in instances, source \in FsSources :
          \E loc \in 0..Len(source) : FixedStringFromRowBinary(t, source, loc)
    \/ \E t \in instances, value \in FsValues, dest \in Prefixes :
          FixedStringToRowBinary(t, value, dest)
    \/ Return

SpecFixedString == InitFixedString /\ [][NextFixedString]_vars

\* the fixed-width slice a row-oriented FixedString decode is given
CallSlice == PySlice(call.source, call.loc, call.loc + FixedString_size(call.typ))

\* C5: with the decode-as-text strategy configured, a row-oriented decode of
\* bytes that are not valid text in the configured encoding does not raise: it
\* returns the configured fallback (the hex rendering for policy 'hex', the
\* placeholder text for any other policy) and advances by the declared size.
C5_InvalidTextFallsBack ==
    (/\ pc = "done"
     /\ call.op = "FixedString._from_row_binary"
     /\ lastMethod = "decode"
     /\ ~BytesDecode(CallSlice, fsClass.encoding).ok) =>
        /\ result.status = "ok"
        /\ result.loc = call.loc + FixedString_size(call.typ)
        /\ result.value = IF fsClass.encode_error.fn = "_hex_string"
                          THEN Str(Hexlify(CallSlice))
                          ELSE Str(BinaryDataText)

\* C7: after any sequence of fixed_string_format calls every FixedString
\* instance decodes by the method of the last call that named a strategy:
\* 'binary' the exact slice, 'hex' its hexadecimal rendering, 'decode' the
\* decoded text.
C7_LastFormatDecides ==
    (pc = "done" /\ call.op = "FixedString._from_row_binary" /\ lastMethod # "none") =>
        LET after == call.loc + FixedString_size(call.typ)
            text == BytesDecode(CallSlice, fsClass.encoding)
        IN  /\ lastMethod = "binary" => result = Ok(Bytes(CallSlice), after)
            /\ lastMethod = "hex" => result = Ok(Str(Hexlify(CallSlice)), after)
            /\ (lastMethod = "decode" /\ text.ok) => result = Ok(Str(text.cps), after)

---------------------------------------------------------------------------
(* Specification SpecArray: a caller constructs one Array codec through the *)
(* registry and, when it got one, decodes columns with it.                 *)

UnknownType == TypeDef("Point", <<>>)

LeafTypes ==
    {UUIDType, NothingType, UnknownType} \cup {FixedStringType(n) : n \in 1..MaxSize}

\* element type names of nesting depth at most d
RECURSIVE ElemTypes(_)
ElemTypes(d) ==
    IF d = 0 THEN LeafTypes
    ELSE LET inner == ElemTypes(d - 1) IN
         inner \cup {ArrayType(t) : t \in inner}
               \cup {SimpleAggregateFunctionType(t) : t \in inner}
               \cup {TupleType(<<t>>) : t \in inner}
               \cup {MapType(UUIDType, t) : t \in inner}

\* the 8 bytes of an unsigned 64-bit word below 65536, in the given byte order
Word64(n, order) ==
    LET le == [i \in 1..8 |-> IF i = 1 THEN n % 256
                              ELSE IF i = 2 THEN (n \div 256) % 256 ELSE 0]
    IN  IF order = "little" THEN le ELSE Reverse(le)

RECURSIVE Sum(_)
Sum(xs) == IF xs = <<>> THEN 0 ELSE Head(xs) + Sum(Tail(xs))

RECURSIVE Flatten(_)
Flatten(xss) == IF xss = <<>> THEN <<>> ELSE Head(xss) \o Flatten(Tail(xss))

\* the cumulative offsets of a column whose rows hold counts[i] elements
Cumulative(counts) == [i \in 1..Len(counts) |-> Sum(SubSeq(counts, 1, i))]

ElemWidth(elem) == IF elem.name = "UUID" THEN UuidLen ELSE FixedString_size(elem)

\* the columnar wire image of an array column: the offsets, then the flattened
\* elements; payload byte i is 16 + i so that no two positions look alike
WireColumn(counts, width, order) ==
    Flatten([i \in 1..Len(counts) |-> Word64(Cumulative(counts)[i], order)])
        \o [i \in 1..(Sum(counts) * width) |-> (16 + i) % 256]

Opposite(order) == IF order = "little" THEN "big" ELSE "little"

InitArray == InitCommon /\ buf = <<>>

\* the registry constructs the one codec of this run
ArrayInit(t) ==
    /\ pc = "idle"
    /\ instances = {}
    /\ ctorLog = <<>>
    /\ LET r == Array_init(t) IN
       /\ ctorLog' = r.log
       /\ result' = [status |-> r.status, value |-> None, loc |-> 0]
       /\ instances' = IF r.status = "ok" THEN {t} ELSE {}
    /\ call' = [NoCall EXCEPT !.op = "Array.__init__", !.typ = t]
    /\ pc' = "done"
    /\ UNCHANGED <<buf, written, cut, fsClass, lastMethod>>

\* from_native on a column of Len(counts) rows that starts at position start of
\* a buffer whose last k bytes are missing; the sender wrote the offsets in the
\* byte order the must_swap flag announces
ArrayFromNative(t, counts, start, must_swap, host, k) ==
    /\ pc = "idle"
    /\ t \in instances
    /\ t.values[1].name \in {"UUID", "FixedString"}
    /\ LET elem == t.values[1]
           order == IF must_swap THEN Opposite(host) ELSE host
           column == WireColumn(counts, ElemWidth(elem), order)
           full == Zeros(start) \o column
       IN  /\ k <= Len(column)
           /\ LET source == SubSeq(full, 1, Len(full) - k) IN
              /\ call' = [NoCall EXCEPT !.op = "Array.from_native", !.typ = t,
                                        !.source = source, !.loc = start,
                                        !.rows = Len(counts), !.swap = must_swap,
                                        !.host = host,
                                        !.arg = [kind |-> "column", v |-> counts, cut |-> k]]
              /\ result' = Array_from_native(elem, source, start, Len(counts), must_swap, host)
    /\ pc' = "done"
    /\ UNCHANGED <<buf, written, cut, fsClass, lastMethod, instances, ctorLog>>

RowCounts == UNION {[1..n -> 0..MaxCnt] : n \in 0..MaxRows}

\* nothing missing, one byte, a whole offset word, a word and a byte
CutChoices == {0, 1, 8, 9}

\* the type names a caller asks the registry to construct an Array over
ArrayElemTypes == ElemTypes(MaxDepth)

NextArray ==
    \/ pc = "idle" /\ ctorLog = <<>> /\ \E t \in ArrayElemTypes : ArrayInit(ArrayType(t))
    \/ pc = "idle" /\ \E t \in instances, counts \in RowCounts, start \in 0..1,
                         must_swap \in BOOLEAN, host \in {"little", "big"},
                         k \in CutChoices :
                         ArrayFromNative(t, counts, start, must_swap, host, k)
    \/ Return

SpecArray == InitArray /\ [][NextArray]_vars

\* every name in the type is one the registry knows
RECURSIVE Known(_)
Known(t) ==
    /\ t.name \in ClassNames \cup {"any"}
    /\ \A i \in 1..Len(t.values) :
          t.name = "FixedString" \/ Known(t.values[i])

InLog(e) == \E i \in 1..Len(ctorLog) : ctorLog[i] = e

\* C3 (as claimed): constructing an Array whose element type is an Array fails
\* with DriverError without the element codec having been constructed first,
\* and constructing an Array over any non-array element type succeeds.
C3_NoElementBeforeFailure ==
    (pc = "done" /\ call.op = "Array.__init__") =>
        LET elem == call.typ.values[1] IN
        /\ elem.name = "Array" =>
              /\ result.status = "DriverError"
              /\ ~InLog(Resolved(elem))
        /\ elem.name # "Array" => result.status = "ok"

\* C3 (amended): constructing an Array whose element type is an Array never
\* hands back an instance, and fails with DriverError whenever every name in
\* the element type is known; the nesting check raises only after the registry
\* has handed back the element codec; over a non-array element type the
\* construction succeeds exactly when the registry resolves the element type.
C3_NestedArrayRejected ==
    /\ \A t \in instances : t.name = "Array" => t.values[1].name # "Array"
    /\ (pc = "done" /\ call.op = "Array.__init__") =>
          LET elem == call.typ.values[1] IN
          /\ elem.name = "Array" =>
                /\ result.status # "ok"
                /\ instances = {}
                /\ Known(elem) => result.status = "DriverError"
          /\ (ctorLog # <<>> /\ ctorLog[Len(ctorLog)] = Raised(call.typ)) =>
                /\ result.status = "DriverError"
                /\ elem.name = "Array"
                /\ Len(ctorLog) >= 2
                /\ ctorLog[Len(ctorLog) - 1] = Resolved(elem)
          /\ elem.name # "Array" =>
                /\ result.status = "ok" <=> InLog(Resolved(elem))
                /\ result.status = "ok" <=> instances = {call.typ}

C3_Witness ==
    /\ pc = "done"
    /\ call.op = "Array.__init__"
    /\ call.typ = ArrayType(ArrayType(UUIDType))
    /\ result.status = "DriverError"
    /\ ctorLog = <<Resolved(UUIDType), Resolved(ArrayType(UUIDType)),
                   Raised(ArrayType(ArrayType(UUIDType)))>>
    /\ instances = {}

\* the element the sender wrote as number idx (from 0) of the flattened payload
SentElement(elem, source, payloadStart, idx) ==
    LET from == payloadStart + idx * ElemWidth(elem) IN
    IF elem.name = "UUID" THEN UUID_from_row_binary(source, from).value
    ELSE Bytes(SubSeq(source, from + 1, from + ElemWidth(elem)))

\* C4: a bulk decode of N rows of a whole column reads the N cumulative offsets
\* (byte-swapped when must_swap is set) and returns, for each row i in order,
\* exactly offset[i] - offset[i-1] elements, taken from where row i-1 ended; a
\* row of count 0 is empty and consumes nothing; the number of elements decoded
\* is the final offset; the position returned is the start plus 8*N plus the
\* bytes of all elements.
C4_ArrayBulkRows ==
    (pc = "done" /\ call.op = "Array.from_native" /\ call.arg.cut = 0) =>
        LET counts == call.arg.v
            n == call.rows
            elem == call.typ.values[1]
            payloadStart == call.loc + 8 * n
            rows == result.value.v
        IN  /\ result.status = "ok"
            /\ Len(rows) = n
            /\ \A i \in 1..n :
                  /\ Len(rows[i].v) = counts[i]
                  /\ \A j \in 1..counts[i] :
                        rows[i].v[j] =
                            SentElement(elem, call.source, payloadStart,
                                        Sum(SubSeq(counts, 1, i - 1)) + j - 1)
            /\ Sum([i \in 1..n |-> Len(rows[i].v)])
                  = (IF n = 0 THEN 0 ELSE Cumulative(counts)[n])
            /\ result.loc = payloadStart + Sum(counts) * ElemWidth(elem)
            /\ result.loc = Len(call.source)

C4_Witness ==
    /\ pc = "done"
    /\ call.op = "Array.from_native"
    /\ call.arg.cut = 0
    /\ call.arg.v = <<2, 0, 1>>
    /\ call.swap
    /\ call.loc = 1
    /\ call.typ = ArrayType(FixedStringType(2))
    /\ result.status = "ok"
    /\ result.value.v[2].v = <<>>
    /\ Len(result.value.v[3].v) = 1

---------------------------------------------------------------------------
(* Specification SpecComposite: row-oriented calls on Map,                  *)
(* SimpleAggregateFunction and Nothing codecs, FixedString left at its     *)
(* class defaults.                                                         *)

KeyTypes == {FixedStringType(1), UUIDType}

ValueTypes ==
    {FixedStringType(1), FixedStringType(2), UUIDType, NothingType,
     SimpleAggregateFunctionType(FixedStringType(1))}

MapTypes == {MapType(k, v) : k \in KeyTypes, v \in ValueTypes}

SafTypes ==
    {SimpleAggregateFunctionType(t) :
        t \in ValueTypes \cup {MapType(FixedStringType(1), FixedStringType(1))}}

\* mappings held as their items in insertion order
Dicts(keys, values) ==
    {items \in UNION {[1..n -> keys \X values] : n \in 0..MaxPairs} :
        \A i, j \in 1..Len(items) : i # j => items[i][1] # items[j][1]}

\* native values of a type
RECURSIVE ValuesOf(_)
ValuesOf(t) ==
    CASE t.name = "FixedString" ->
            {Bytes(q) : q \in {x \in SeqsUpTo({65, 66}, FixedString_size(t)) :
                                 Len(x) = FixedString_size(t)}}
      [] t.name = "UUID" -> {PyUUID(Ramp(0, 17)), PyUUID(Ramp(1, 3))}
      [] t.name = "Nothing" -> {None}
      [] t.name = "SimpleAggregateFunction" -> ValuesOf(t.values[2])
      [] t.name = "Map" ->
            {Dict(items) : items \in Dicts(ValuesOf(t.values[1]), ValuesOf(t.values[2]))}

\* the row-oriented wire image of a value: primitive layouts fixed per type,
\* collections length-prefixed
RECURSIVE WireRow(_, _)
WireRow(t, value) ==
    CASE t.name = "FixedString" -> value.v
      [] t.name = "UUID" -> UUID_to_row_binary(value, <<>>)
      [] t.name = "Nothing" -> <<>>
      [] t.name = "SimpleAggregateFunction" -> WireRow(t.values[2], value)
      [] t.name = "Map" ->
            to_leb128(Len(value.v))
                \o Flatten([i \in 1..Len(value.v) |->
                              WireRow(t.values[1], value.v[i][1])
                                  \o WireRow(t.values[2], value.v[i][2])])

InitComposite == InitCommon /\ buf = <<>>

\* codec.to_row_binary(values, dest): the call the codec contract makes
MapToRowBinary(t, values, dest) ==
    /\ pc = "idle"
    /\ call' = [NoCall EXCEPT !.op = "Map.to_row_binary", !.typ = t, !.arg = values,
                              !.dest = dest]
    /\ LET r == ToRowBinary(fsClass, t, <<values, dest>>) IN
       result' = [status |-> r.status, value |-> Bytes(r.dest), loc |-> 0]
    /\ pc' = "done"
    /\ UNCHANGED <<buf, written, cut, fsClass, lastMethod, instances, ctorLog>>

\* Map._to_row_binary(values): the call its own signature allows; the outcome's
\* value is what the call returns
MapToRowBinaryAsDeclared(t, values) ==
    /\ pc = "idle"
    /\ call' = [NoCall EXCEPT !.op = "Map._to_row_binary", !.typ = t, !.arg = values]
    /\ LET r == ToRowBinary(fsClass, t, <<values>>) IN
       result' = [status |-> r.status, value |-> r.ret, loc |-> 0]
    /\ pc' = "done"
    /\ UNCHANGED <<buf, written, cut, fsClass, lastMethod, instances, ctorLog>>

\* decode of a mapping's wire image that starts at position Len(prefix)
MapFromRowBinary(t, values, prefix) ==
    /\ pc = "idle"
    /\ LET source == prefix \o WireRow(t, values) IN
       /\ call' = [NoCall EXCEPT !.op = "Map.from_row_binary", !.typ = t,
                                 !.source = source, !.loc = Len(prefix), !.arg = values]
       /\ result' = FromRowBinary(fsClass, t, source, Len(prefix))
    /\ pc' = "done"
    /\ UNCHANGED <<buf, written, cut, fsClass, lastMethod, instances, ctorLog>>

SimpleAggregateFunctionFromRowBinary(t, value, prefix) ==
    /\ pc = "idle"
    /\ LET source == prefix \o WireRow(t, value) IN
       /\ call' = [NoCall EXCEPT !.op = "SimpleAggregateFunction.from_row_binary",
                                 !.typ = t, !.source = source, !.loc = Len(prefix),
                                 !.arg = value]
       /\ result' = FromRowBinary(fsClass, t, source, Len(prefix))
    /\ pc' = "done"
    /\ UNCHANGED <<buf, written, cut, fsClass, lastMethod, instances, ctorLog>>

SimpleAggregateFunctionToRowBinary(t, value, dest) ==
    /\ pc = "idle"
    /\ call' = [NoCall EXCEPT !.op = "SimpleAggregateFunction.to_row_binary", !.typ = t,
                              !.arg = value, !.dest = dest]
    /\ LET r == ToRowBinary(fsClass, t, <<value, dest>>) IN
       result' = [status |-> r.status, value |-> Bytes(r.dest), loc |-> 0]
    /\ pc' = "done"
    /\ UNCHANGED <<buf, written, cut, fsClass, lastMethod, instances, ctorLog>>

NothingFromRowBinary(source, loc) ==
    /\ pc = "idle"
    /\ call' = [NoCall EXCEPT !.op = "Nothing.from_row_binary", !.typ = NothingType,
                              !.source = source, !.loc = loc]
    /\ result' = FromRowBinary(fsClass, NothingType, source, loc)
    /\ pc' = "done"
    /\ UNCHANGED <<buf, written, cut, fsClass, lastMethod, instances, ctorLog>>

NothingToRowBinary(value, dest) ==
    /\ pc = "idle"
    /\ call' = [NoCall EXCEPT !.op = "Nothing.to_row_binary", !.typ = NothingType,
                              !.arg = value, !.dest = dest]
    /\ LET r == ToRowBinary(fsClass, NothingType, <<value, dest>>) IN
       result' = [status |-> r.status, value |-> Bytes(r.dest), loc |-> 0]
    /\ pc' = "done"
    /\ UNCHANGED <<buf, written, cut, fsClass, lastMethod, instances, ctorLog>>

NextComposite ==
    \/ \E t \in MapTypes : \E values \in ValuesOf(t), dest \in Prefixes :
          MapToRowBinary(t, values, dest)
    \/ \E t \in MapTypes : \E values \in ValuesOf(t) : MapToRowBinaryAsDeclared(t, values)
    \/ \E t \in MapTypes : \E values \in ValuesOf(t), prefix \in Prefixes :
          MapFromRowBinary(t, values, prefix)
    \/ \E t \in SafTypes : \E value \in ValuesOf(t), prefix \in Prefixes :
          SimpleAggregateFunctionFromRowBinary(t, value, prefix)
    \/ \E t \in SafTypes : \E value \in ValuesOf(t), dest \in Prefixes :
          SimpleAggregateFunctionToRowBinary(t, value, dest)
    \/ \E source \in SeqsUpTo({65}, 2) : \E loc \in 0..Len(source) :
          NothingFromRowBinary(source, loc)
    \/ \E value \in {None, Bytes(<<65>>)}, dest \in Prefixes : NothingToRowBinary(value, dest)
    \/ Return

SpecComposite == InitComposite /\ [][NextComposite]_vars

\* a codec whose row-oriented encode and decode are inverse to each other
RoundTrips(t) == t.name \in {"FixedString", "UUID"}

\* C2: for a mapping m whose keys and values round-trip through their codecs,
\* Map encode appends the length prefix and then, pair by pair, the key encoded
\* by the key codec and the value encoded by the value codec, and Map decode of
\* what was appended returns m.
C2_MapRoundTrip ==
    (/\ pc = "done"
     /\ call.op \in {"Map.to_row_binary", "Map._to_row_binary"}
     /\ RoundTrips(call.typ.values[1])
     /\ RoundTrips(call.typ.values[2])) =>
        LET out == IF call.op = "Map.to_row_binary" THEN result.value.v
                   ELSE call.dest \o result.value.v
            p == Len(call.dest)
        IN  /\ result.status = "ok"
            /\ out = call.dest \o WireRow(call.typ, call.arg)
            /\ FromRowBinary(fsClass, call.typ, out, p) = Ok(call.arg, Len(out))

\* C8: SimpleAggregateFunction's row-oriented decode returns exactly what the
\* wrapped codec's decode returns, and its encode appends to the out buffer
\* exactly what the wrapped codec's encode appends.
C8_SafDelegates ==
    /\ (pc = "done" /\ call.op = "SimpleAggregateFunction.from_row_binary") =>
          result = FromRowBinary(fsClass, call.typ.values[2], call.source, call.loc)
    /\ (pc = "done" /\ call.op = "SimpleAggregateFunction.to_row_binary") =>
          LET e == ToRowBinary(fsClass, call.typ.values[2], <<call.arg, call.dest>>) IN
          /\ result.status = e.status
          /\ result.value = Bytes(e.dest)

\* C9: Nothing's row-oriented decode returns (no value, pos) for every buffer
\* and position, and its encode leaves the out buffer as it was.
C9_NothingNoOp ==
    /\ (pc = "done" /\ call.op = "Nothing.from_row_binary") => result = Ok(None, call.loc)
    /\ (pc = "done" /\ call.op = "Nothing.to_row_binary") =>
          /\ result.status = "ok"
          /\ result.value = Bytes(call.dest)

=============================================================================
